---- MODULE Spec2Model ----
(***************************************************************************)
(* Time-integration engine of Probabilistic-Peridynamics                   *)
(* (peridynamics/integrators.py).                                          *)
(*                                                                         *)
(* One integrator object of one of the OpenCL integrator classes is        *)
(* modelled together with the model object it was constructed from.  The   *)
(* host side (buffers, kernel dispatch order, the arguments handed to each *)
(* kernel, the adaptive time-step control) follows integrators.py.  The    *)
(* OpenCL kernel sources (kernels/*.cl) are not part of the source tree;   *)
(* their bodies follow sections 4.1-4.5 of the specification, in one       *)
(* space dimension and in fixed-point integer arithmetic.                  *)
(*                                                                         *)
(* Nodes are numbered 1..nnodes (0..nnodes-1 in the source); -1 is the     *)
(* padding / broken-bond entry of the adjacency table, as in the source.   *)
(***************************************************************************)
EXTENDS Integers, Naturals, Sequences, FiniteSets, TLC

(* ---------------------------------------------------------------------- *)
(* Bounds of the model                                                    *)
(* ---------------------------------------------------------------------- *)

\* number of committed steps (runtime calls that are not rejected) explored
MaxCalls == 2

\* h_dt may leave model.dt by at most this many factors of 1.1 either way
MaxAdapt == 2

\* largest load scale handed to incrementLoad
MaxLoad == 1

\* number of runtime calls made on each of two objects driven side by side
MaxPairCalls == 3

(* ---------------------------------------------------------------------- *)
(* Sizes and fixed-point scale                                            *)
(* ---------------------------------------------------------------------- *)

nnodes == 3

MAX_HORIZON_LENGTH == 2

Nodes == 1..nnodes

Slots == 1..MAX_HORIZON_LENGTH

RECURSIVE Pow(_, _)
Pow(b, e) == IF e = 0 THEN 1 ELSE b * Pow(b, e - 1)

\* one time unit in fixed point; divisible MaxAdapt times by 10 and by 11,
\* so that h_dt *= 1.1 and h_dt /= 1.1 are exact within the bound
DtUnit == Pow(110, MaxAdapt)

Abs(x) == IF x < 0 THEN 0 - x ELSE x

Sgn(x) == IF x < 0 THEN 0 - 1 ELSE IF x > 0 THEN 1 ELSE 0

\* division rounding toward zero (C / OpenCL integer and float truncation)
Quot(x, d) == IF x < 0 THEN 0 - ((0 - x) \div d) ELSE x \div d

\* dt * x with dt a fixed-point time step
MulDt(dt, x) == Quot(dt * x, DtUnit)

(* ---------------------------------------------------------------------- *)
(* IEEE-754 values of the error norm read back by the host                 *)
(* ---------------------------------------------------------------------- *)

NaN == -1

Inf == 1000

FloatGt(a, b) == a # NaN /\ b # NaN /\ a > b

FloatLt(a, b) == a # NaN /\ b # NaN /\ a < b

FloatLe(a, b) == a # NaN /\ b # NaN /\ a <= b

error_size_max == 2

error_size_min == 1

ErrorValues == {0, 1, 2, 3, Inf, NaN}

(* ---------------------------------------------------------------------- *)
(* The model object handed to the constructor                             *)
(* ---------------------------------------------------------------------- *)

\* reference coordinate of node i (a chain with uniform spacing)
Spacing == 100

coords == [i \in Nodes |-> Spacing * i]

\* critical stretch 1/10 for every bond
ScNum == 1

ScDen == 10

\* displacement-driven chain: both ends pulled apart, no force BC
PullModel ==
    [ horizons           |-> << <<2, -1>>, <<1, 3>>, <<2, -1>> >>,
      horizons_lengths   |-> <<1, 2, 1>>,
      bc_types           |-> <<0, 2, 0>>,
      bc_values          |-> <<0 - 10, 0, 10>>,
      force_bc_types     |-> <<2, 2, 2>>,
      force_bc_values    |-> <<0, 0, 0>>,
      num_force_bc_nodes |-> 0,
      tip_types          |-> <<0, 0, 1>> ]

\* force-driven chain: node 1 held, node 3 loaded
LoadModel ==
    [ horizons           |-> << <<2, -1>>, <<1, 3>>, <<2, -1>> >>,
      horizons_lengths   |-> <<1, 2, 1>>,
      bc_types           |-> <<0, 2, 2>>,
      bc_values          |-> <<0, 0, 0>>,
      force_bc_types     |-> <<2, 2, 1>>,
      force_bc_values    |-> <<0, 0, 16>>,
      num_force_bc_nodes |-> 1,
      tip_types          |-> <<0, 0, 0>> ]

\* a two-node bond pulled apart next to a node with no neighbour at all
IsolatedModel ==
    [ horizons           |-> << <<2, -1>>, <<1, -1>>, <<-1, -1>> >>,
      horizons_lengths   |-> <<1, 1, 0>>,
      bc_types           |-> <<0, 0, 2>>,
      bc_values          |-> <<0 - 6, 6, 0>>,
      force_bc_types     |-> <<2, 2, 2>>,
      force_bc_values    |-> <<0, 0, 0>>,
      num_force_bc_nodes |-> 0,
      tip_types          |-> <<0, 1, 1>> ]

\* a chain with no displacement BC and no force BC
FreeModel ==
    [ horizons           |-> << <<2, -1>>, <<1, 3>>, <<2, -1>> >>,
      horizons_lengths   |-> <<1, 2, 1>>,
      bc_types           |-> <<2, 2, 2>>,
      bc_values          |-> <<0, 0, 0>>,
      force_bc_types     |-> <<2, 2, 2>>,
      force_bc_values    |-> <<0, 0, 0>>,
      num_force_bc_nodes |-> 0,
      tip_types          |-> <<1, 0, 1>> ]

Models == {PullModel, LoadModel, IsolatedModel, FreeModel}

(* ---------------------------------------------------------------------- *)
(* Integrator classes                                                     *)
(* ---------------------------------------------------------------------- *)

FixedKinds ==
    {"EulerCromer", "EulerCromerOptimised", "EulerOpenCL", "EulerOpenCLOptimised",
     "VelocityVerletOpenCL", "RK4", "RK4Optimised", "EulerStochastic",
     "EulerOpenCLOptimisedLumped"}

AdaptiveKinds ==
    {"DormandPrince", "DormandPrinceOptimised", "HeunEuler", "HeunEulerOptimised"}

Kinds == FixedKinds \cup AdaptiveKinds

VARIABLES
    kind,                \* class of the integrator object
    model,               \* the model object (never assigned by the integrator)
    d_horizons,          \* device adjacency table, -1 = no bond / broken bond
    d_un,                \* committed displacement: d_un, d_un5 (DormandPrince*), d_un2 (HeunEuler*)
    d_un_temp,           \* last stage displacement: d_un_temp (DormandPrince*), d_un1 (HeunEuler*), d_un3 (RK4*)
    d_udn,               \* first rate buffer: d_udn1 (EulerOpenCL), d_udn (force or velocity), d_k1dn (RK4*, adaptive)
    d_uddn,              \* acceleration buffer d_uddn (EulerCromer*, VelocityVerletOpenCL)
    h_dt,                \* host time step (fixed point, DtUnit = model.dt)
    h_force_load_scale,  \* host load scale
    d_pn,                \* noise increments installed by reset, <<>> before the first reset
    h_damage,            \* damage vector returned by the last write
    calls,               \* number of committed steps made
    last,                \* what the last operation did (observation only)
    integrator,          \* the Euler object of the regression fixture
    u,                   \* displacement array of the regression loop, nnodes x 3
    f,                   \* force array of the regression loop, nnodes x 3
    t,                   \* loop counter of the regression loop
    result,              \* array returned by the last Euler.__call__
    pair,                \* two integrator objects driven by the same calls
    pending,             \* work-items of the running dispatch that have not run yet
    domain               \* arguments and return value of decomposeDomain

vars == <<kind, model, d_horizons, d_un, d_un_temp, d_udn, d_uddn, h_dt,
          h_force_load_scale, d_pn, h_damage, calls, last,
          integrator, u, f, t, result, pair, pending, domain>>

\* the state of one OpenCL integrator object
device == <<kind, model, d_horizons, d_un, d_un_temp, d_udn, d_uddn, h_dt,
            h_force_load_scale, d_pn, h_damage, calls, last>>

\* the state outside that object
outside == <<integrator, u, f, t, result, pair, pending, domain>>

(* ---------------------------------------------------------------------- *)
(* Device kernels shared by the integrator classes                        *)
(* ---------------------------------------------------------------------- *)

RECURSIVE SumTo(_, _)
SumTo(field, n) == IF n = 0 THEN 0 ELSE field[n] + SumTo(field, n - 1)

ZeroField == [i \in Nodes |-> 0]

\* bond stiffness times neighbour volume
bond_stiffness == 50

\* deformed bond vector of the bond i -> j
Deformed(Un, i, j) == (coords[j] + Un[j]) - (coords[i] + Un[i])

\* |deformed| - |reference| of the bond i -> j
Elongation(Un, i, j) == Abs(Deformed(Un, i, j)) - Abs(coords[j] - coords[i])

\* |stretch| > critical stretch, with stretch = elongation / |reference|
ExceedsCriticalStretch(Un, i, j) ==
    Abs(Elongation(Un, i, j)) * ScDen > ScNum * Abs(coords[j] - coords[i])

\* stiffness * stretch * volume along the deformed bond direction
BondForce(Un, i, j) ==
    Sgn(Deformed(Un, i, j))
        * Quot(bond_stiffness * Elongation(Un, i, j), Abs(coords[j] - coords[i]))

\* externally applied force of node i, scaled by the load scale
ForceBC(i, load_scale) ==
    IF model.force_bc_types[i] = 2 THEN 0 ELSE load_scale * model.force_bc_values[i]

\* CheckBonds: one work-item per (node, slot); breaks the bonds stretched
\* past the critical stretch at displacement Un
CheckBonds(Horizons, Un) ==
    [i \in Nodes |-> [s \in Slots |->
        IF Horizons[i][s] # -1 /\ ExceedsCriticalStretch(Un, i, Horizons[i][s])
        THEN -1 ELSE Horizons[i][s]]]

\* per-bond force buffer of the optimised CalcBondForce, which runs the
\* failure test itself: a bond broken now or earlier contributes zero
BondForces(Horizons, Un) ==
    [i \in Nodes |-> [s \in Slots |->
        IF CheckBonds(Horizons, Un)[i][s] = -1 THEN 0
        ELSE BondForce(Un, i, Horizons[i][s])]]

\* ReduceForce: per-node sum of the per-bond forces plus the force BC
ReduceForce(Forces, load_scale) ==
    [i \in Nodes |-> SumTo(Forces[i], MAX_HORIZON_LENGTH) + ForceBC(i, load_scale)]

\* CalcBondForce / TimeMarching2 of the non-optimised classes: inline
\* reduction over the node's neighbour list, no failure test
CalcBondForce(Horizons, Un, load_scale) ==
    [i \in Nodes |->
        SumTo([s \in Slots |-> IF Horizons[i][s] = -1 THEN 0
                               ELSE BondForce(Un, i, Horizons[i][s])],
              MAX_HORIZON_LENGTH)
        + ForceBC(i, load_scale)]

\* TimeMarching1 / UpdateDisplacement of the Euler classes: free degrees of
\* freedom integrate the rate, constrained ones take the prescribed increment
UpdateDisplacement(Udn, Un, dt) ==
    [i \in Nodes |->
        IF model.bc_types[i] = 2 THEN Un[i] + MulDt(dt, Udn[i])
        ELSE Un[i] + model.bc_values[i]]

\* CalculateDamage / ReduceDamage: 1 - active / initial per node, kept as the
\* fraction num / den. With den > 0 the fraction lies in [0, 1] and the clamp
\* changes nothing; den = 0 is the 0/0 of a node without bonds, a NaN, which
\* a clamp by comparisons passes on
CalculateDamage(Horizons, HorizonLengths) ==
    [i \in Nodes |->
        [num |-> HorizonLengths[i]
                   - Cardinality({s \in Slots : Horizons[i][s] # -1}),
         den |-> HorizonLengths[i]]]

(* ---------------------------------------------------------------------- *)
(* Construction                                                           *)
(* ---------------------------------------------------------------------- *)

\* a buffer created without COPY_HOST_PTR holds whatever the allocation held
Garbage == 12

UninitFields == {ZeroField, [i \in Nodes |-> IF i = nnodes THEN Garbage ELSE 0]}

\* no Euler object, no regression loop and no second object
NoOutside ==
    /\ integrator = [dt |-> 0, dampening |-> 0]
    /\ u = <<>>
    /\ f = <<>>
    /\ t = 0
    /\ result = <<>>
    /\ pair = <<>>
    /\ pending = {}
    /\ domain = <<>>

NoCall ==
    [op |-> "init", adapt |-> 0, error |-> 0, committed |-> FALSE,
     arg |-> 0, ret |-> <<>>, evals |-> <<>>,
     dt_stage |-> DtUnit, dt_commit |-> DtUnit,
     un_before |-> ZeroField, hz_before |-> PullModel.horizons,
     hz_stage |-> PullModel.horizons]

Init ==
    /\ kind \in Kinds
    /\ model \in Models
    /\ d_horizons = model.horizons
    /\ IF kind = "VelocityVerletOpenCL"
       THEN d_un = ZeroField /\ d_udn = ZeroField
       ELSE d_un \in UninitFields /\ d_udn \in UninitFields
    /\ d_un_temp = d_un
    /\ d_uddn = d_udn
    /\ h_dt = DtUnit
    /\ h_force_load_scale = 0
    /\ d_pn = <<>>
    /\ h_damage = <<>>
    /\ calls = 0
    /\ last = [NoCall EXCEPT !.un_before = d_un, !.hz_before = model.horizons,
                             !.hz_stage = model.horizons]
    /\ NoOutside

\* record of a call that is not a runtime call: the state it was made in
OtherCall(op) ==
    [op |-> op, adapt |-> 0, error |-> 0, committed |-> FALSE,
     arg |-> 0, ret |-> <<>>, evals |-> <<>>,
     dt_stage |-> h_dt, dt_commit |-> h_dt,
     un_before |-> d_un, hz_before |-> d_horizons, hz_stage |-> d_horizons]

\* what a runtime call of a fixed-step class records
FixedCall(hz_stage) ==
    [op |-> "runtime", adapt |-> 0, error |-> 0, committed |-> TRUE,
     arg |-> 0, ret |-> <<>>, evals |-> <<>>,
     dt_stage |-> h_dt, dt_commit |-> h_dt,
     un_before |-> d_un, hz_before |-> d_horizons, hz_stage |-> hz_stage]

(* ---------------------------------------------------------------------- *)
(* Euler classes                                                          *)
(* ---------------------------------------------------------------------- *)

\* faulty variant of EulerOpenCL.runtime: the failure check starts from the
\* host adjacency instead of the device one (BondMonotonicity must fail
\* under it)
EulerOpenCL_runtime_rebuild ==
    /\ kind = "EulerOpenCL"
    /\ calls < MaxCalls
    /\ LET un == UpdateDisplacement(d_udn, d_un, DtUnit)
       IN /\ d_un' = un
          /\ d_udn' = CalcBondForce(d_horizons, un, h_force_load_scale)
          /\ d_horizons' = CheckBonds(model.horizons, un)
          /\ last' = FixedCall(d_horizons)
    /\ calls' = calls + 1
    /\ UNCHANGED <<outside, kind, model, d_un_temp, d_uddn, h_dt, h_force_load_scale, d_pn, h_damage>>

\* the buffers and scalars of this object that a fixed-step runtime works on
Self ==
    [d_horizons |-> d_horizons, d_un |-> d_un, d_un_temp |-> d_un_temp,
     d_udn |-> d_udn, h_force_load_scale |-> h_force_load_scale,
     evals |-> <<>>]

\* EulerOpenCL.runtime on the buffers of the object o: TimeMarching1,
\* TimeMarching2, CheckBonds
EulerOpenCL_step(o) ==
    LET un == UpdateDisplacement(o.d_udn, o.d_un, DtUnit)
    IN [o EXCEPT !.d_un = un,
                 !.d_udn = CalcBondForce(o.d_horizons, un, o.h_force_load_scale),
                 !.d_horizons = CheckBonds(o.d_horizons, un)]

EulerOpenCL_runtime ==
    /\ kind = "EulerOpenCL"
    /\ calls < MaxCalls
    /\ \E new \in {EulerOpenCL_step(Self)} :
          /\ d_un' = new.d_un
          /\ d_udn' = new.d_udn
          /\ d_horizons' = new.d_horizons
          /\ last' = FixedCall(d_horizons)
    /\ calls' = calls + 1
    /\ UNCHANGED <<outside, kind, model, d_un_temp, d_uddn, h_dt, h_force_load_scale, d_pn, h_damage>>

\* EulerOpenCLOptimised.runtime on the buffers of the object o:
\* UpdateDisplacement, CalcBondForce (with the failure test), ReduceForce
EulerOpenCLOptimised_step(o) ==
    LET un == UpdateDisplacement(o.d_udn, o.d_un, DtUnit)
    IN [o EXCEPT !.d_un = un,
                 !.d_horizons = CheckBonds(o.d_horizons, un),
                 !.d_udn = ReduceForce(BondForces(o.d_horizons, un),
                                       o.h_force_load_scale)]

EulerOpenCLOptimised_runtime ==
    /\ kind = "EulerOpenCLOptimised"
    /\ calls < MaxCalls
    /\ \E new \in {EulerOpenCLOptimised_step(Self)} :
          /\ d_un' = new.d_un
          /\ d_horizons' = new.d_horizons
          /\ d_udn' = new.d_udn
          /\ last' = FixedCall(new.d_horizons)
    /\ calls' = calls + 1
    /\ UNCHANGED <<outside, kind, model, d_un_temp, d_uddn, h_dt, h_force_load_scale, d_pn, h_damage>>

\* EulerOpenCLOptimisedLumped.runtime on the buffers of the object o:
\* CalcBondForce at the current displacement, then the fused ReduceForce
\* that writes the nodal force and the next displacement
EulerOpenCLOptimisedLumped_step(o) ==
    LET udn == ReduceForce(BondForces(o.d_horizons, o.d_un), o.h_force_load_scale)
    IN [o EXCEPT !.d_horizons = CheckBonds(o.d_horizons, o.d_un),
                 !.d_udn = udn,
                 !.d_un = UpdateDisplacement(udn, o.d_un, DtUnit)]

EulerOpenCLOptimisedLumped_runtime ==
    /\ kind = "EulerOpenCLOptimisedLumped"
    /\ calls < MaxCalls
    /\ \E new \in {EulerOpenCLOptimisedLumped_step(Self)} :
          /\ d_horizons' = new.d_horizons
          /\ d_udn' = new.d_udn
          /\ d_un' = new.d_un
          /\ last' = FixedCall(new.d_horizons)
    /\ calls' = calls + 1
    /\ UNCHANGED <<outside, kind, model, d_un_temp, d_uddn, h_dt, h_force_load_scale, d_pn, h_damage>>

(* ---------------------------------------------------------------------- *)
(* Stochastic Euler                                                       *)
(* ---------------------------------------------------------------------- *)

NoiseFields == {ZeroField, [i \in Nodes |-> IF i = 2 THEN 1 ELSE 0]}

\* UpdateDisplacement of the stochastic class: Euler update plus the noise
\* increment of this step index
UpdateDisplacementNoise(Udn, Un, Pn, step) ==
    [i \in Nodes |->
        IF model.bc_types[i] = 2 THEN Un[i] + MulDt(DtUnit, Udn[i]) + Pn[step][i]
        ELSE Un[i] + model.bc_values[i]]

\* faulty variant of EulerStochastic.reset: the device adjacency is not
\* re-created (ResetRestoresBonds must fail under it)
reset_keep(steps, pn) ==
    /\ kind = "EulerStochastic"
    /\ d_un' = ZeroField
    /\ d_udn' = ZeroField
    /\ h_damage' = [i \in Nodes |-> [num |-> 0, den |-> 1]]
    /\ d_pn' = [k \in 1..steps |-> pn]
    /\ d_horizons' = d_horizons
    /\ last' = [OtherCall("reset") EXCEPT !.arg = steps]
    /\ UNCHANGED <<outside, kind, model, d_un_temp, d_uddn, h_dt, h_force_load_scale, calls>>

reset(steps, pn) ==
    /\ kind = "EulerStochastic"
    /\ d_un' = ZeroField
    /\ d_udn' = ZeroField
    /\ h_damage' = [i \in Nodes |-> [num |-> 0, den |-> 1]]
    /\ d_pn' = [k \in 1..steps |-> pn]
    /\ d_horizons' = model.horizons
    /\ last' = [OtherCall("reset") EXCEPT !.arg = steps]
    /\ UNCHANGED <<outside, kind, model, d_un_temp, d_uddn, h_dt, h_force_load_scale, calls>>

\* what the kernel reads from d_pn for the step index it is handed: the
\* increments installed by reset, and past their end whatever lies there
NoiseRead(step) ==
    IF step \in 1..Len(d_pn) THEN {d_pn}
    ELSE {[k \in 1..step |-> pn] : pn \in UninitFields}

\* self.d_pn is created by reset only: before the first reset the dispatch
\* raises AttributeError and nothing runs
EulerStochastic_runtime(step) ==
    /\ kind = "EulerStochastic"
    /\ calls < MaxCalls
    /\ d_pn # <<>>
    /\ \E Pn \in NoiseRead(step) :
       \E un \in {UpdateDisplacementNoise(d_udn, d_un, Pn, step)} :
          /\ d_un' = un
          /\ d_horizons' = CheckBonds(d_horizons, un)
          /\ d_udn' = ReduceForce(BondForces(d_horizons, un), h_force_load_scale)
          /\ last' = [FixedCall(CheckBonds(d_horizons, un)) EXCEPT !.arg = step]
    /\ calls' = calls + 1
    /\ UNCHANGED <<outside, kind, model, d_un_temp, d_uddn, h_dt, h_force_load_scale, d_pn, h_damage>>

(* ---------------------------------------------------------------------- *)
(* Dynamic classes: Euler-Cromer and velocity-Verlet                      *)
(* ---------------------------------------------------------------------- *)

PD_RHO == 1

PD_ETA == 1

\* acceleration from the nodal force: damped by eta, scaled by 1 / density
Acceleration(Force, Udn) ==
    [i \in Nodes |-> Quot(Force[i] - PD_ETA * Udn[i], PD_RHO)]

\* UpdateVelocity: v' = v + dt * a
UpdateVelocity(Udn, Uddn) == [i \in Nodes |-> Udn[i] + MulDt(DtUnit, Uddn[i])]

EulerCromer_runtime ==
    /\ kind = "EulerCromer"
    /\ calls < MaxCalls
    /\ LET un   == UpdateDisplacement(d_udn, d_un, DtUnit)
           uddn == Acceleration(CalcBondForce(d_horizons, un, h_force_load_scale), d_udn)
       IN /\ d_un' = un
          /\ d_uddn' = uddn
          /\ d_udn' = UpdateVelocity(d_udn, uddn)
          /\ d_horizons' = CheckBonds(d_horizons, un)
          /\ last' = FixedCall(d_horizons)
    /\ calls' = calls + 1
    /\ UNCHANGED <<outside, kind, model, d_un_temp, h_dt, h_force_load_scale, d_pn, h_damage>>

EulerCromerOptimised_runtime ==
    /\ kind = "EulerCromerOptimised"
    /\ calls < MaxCalls
    /\ LET un   == UpdateDisplacement(d_udn, d_un, DtUnit)
           uddn == Acceleration(ReduceForce(BondForces(d_horizons, un),
                                            h_force_load_scale), d_udn)
       IN /\ d_un' = un
          /\ d_horizons' = CheckBonds(d_horizons, un)
          /\ d_uddn' = uddn
          /\ d_udn' = UpdateVelocity(d_udn, uddn)
          /\ last' = FixedCall(CheckBonds(d_horizons, un))
    /\ calls' = calls + 1
    /\ UNCHANGED <<outside, kind, model, d_un_temp, h_dt, h_force_load_scale, d_pn, h_damage>>

\* TimeMarching1 of velocity-Verlet: u' = u + dt v + dt^2/2 a
VerletPosition(Un, Udn, Uddn) ==
    [i \in Nodes |-> Un[i] + MulDt(DtUnit, Udn[i])
                           + Quot(MulDt(DtUnit, MulDt(DtUnit, Uddn[i])), 2)]

\* TimeMarching3 of velocity-Verlet: v' = v + dt/2 (a + a'), constrained
\* degrees of freedom take the prescribed value
VerletVelocity(Udn, Uddn, Uddn1) ==
    [i \in Nodes |->
        IF model.bc_types[i] = 2
        THEN Udn[i] + Quot(MulDt(DtUnit, Uddn[i] + Uddn1[i]), 2)
        ELSE model.bc_values[i]]

\* the faulty step shape that evaluates the force before the position update
VelocityVerletOpenCL_runtime_old_position ==
    /\ kind = "VelocityVerletOpenCL"
    /\ calls < MaxCalls
    /\ LET un    == VerletPosition(d_un, d_udn, d_uddn)
           uddn1 == Acceleration(CalcBondForce(d_horizons, d_un, h_force_load_scale), d_udn)
       IN /\ d_un' = un
          /\ d_udn' = VerletVelocity(d_udn, d_uddn, uddn1)
          /\ d_uddn' = uddn1
          /\ d_horizons' = CheckBonds(d_horizons, un)
          /\ last' = FixedCall(d_horizons)
    /\ calls' = calls + 1
    /\ UNCHANGED <<outside, kind, model, d_un_temp, h_dt, h_force_load_scale, d_pn, h_damage>>

\* VelocityVerletOpenCL.runtime: TimeMarching1, TimeMarching2 into the new
\* acceleration buffer, TimeMarching3, CheckBonds
VelocityVerletOpenCL_runtime ==
    /\ kind = "VelocityVerletOpenCL"
    /\ calls < MaxCalls
    /\ LET un    == VerletPosition(d_un, d_udn, d_uddn)
           uddn1 == Acceleration(CalcBondForce(d_horizons, un, h_force_load_scale), d_udn)
       IN /\ d_un' = un
          /\ d_udn' = VerletVelocity(d_udn, d_uddn, uddn1)
          /\ d_uddn' = uddn1
          /\ d_horizons' = CheckBonds(d_horizons, un)
          /\ last' = FixedCall(d_horizons)
    /\ calls' = calls + 1
    /\ UNCHANGED <<outside, kind, model, d_un_temp, h_dt, h_force_load_scale, d_pn, h_damage>>

(* ---------------------------------------------------------------------- *)
(* Classical Runge-Kutta                                                  *)
(* ---------------------------------------------------------------------- *)

\* PartialUpdateDisplacement of RK4: u + dt/2 k
RK4PartialUpdateDisplacement(Kdn, Un) ==
    [i \in Nodes |-> Un[i] + Quot(MulDt(DtUnit, Kdn[i]), 2)]

\* PartialUpdateDisplacement2 of RK4: u + dt k
RK4PartialUpdateDisplacement2(Kdn, Un) ==
    [i \in Nodes |-> Un[i] + MulDt(DtUnit, Kdn[i])]

\* UpdateDisplacement of RK4: u + dt/6 (k1 + 2 k2 + 2 k3 + k4), constrained
\* degrees of freedom take the prescribed increment
RK4UpdateDisplacement(K1, K2, K3, K4, Un) ==
    [i \in Nodes |->
        IF model.bc_types[i] = 2
        THEN Un[i] + Quot(MulDt(DtUnit, K1[i] + 2 * K2[i] + 2 * K3[i] + K4[i]), 6)
        ELSE Un[i] + model.bc_values[i]]

\* the faulty step shape in which every intermediate displacement is built
\* from the previous intermediate one instead of the start-of-step one
RK4_step_chained(o) ==
    LET F(Un) == CalcBondForce(o.d_horizons, Un, o.h_force_load_scale)
        k1  == F(o.d_un)
        un1 == RK4PartialUpdateDisplacement(k1, o.d_un)
        k2  == F(un1)
        un2 == RK4PartialUpdateDisplacement(k2, un1)
        k3  == F(un2)
        un3 == RK4PartialUpdateDisplacement2(k3, un2)
        k4  == F(un3)
        un  == RK4UpdateDisplacement(k1, k2, k3, k4, o.d_un)
    IN [o EXCEPT !.d_udn = k1,
                 !.d_un_temp = un3,
                 !.d_un = un,
                 !.d_horizons = CheckBonds(o.d_horizons, un),
                 !.evals = <<o.d_un, un1, un2, un3>>]

\* RK4.runtime on the buffers of the object o: four force evaluations on
\* the adjacency of the call's start, the update, then CheckBonds; evals
\* lists the displacements the four CalcBondForce dispatches read, in order
RK4_step(o) ==
    LET F(Un) == CalcBondForce(o.d_horizons, Un, o.h_force_load_scale)
        k1  == F(o.d_un)
        un1 == RK4PartialUpdateDisplacement(k1, o.d_un)
        k2  == F(un1)
        un2 == RK4PartialUpdateDisplacement(k2, o.d_un)
        k3  == F(un2)
        un3 == RK4PartialUpdateDisplacement2(k3, o.d_un)
        k4  == F(un3)
        un  == RK4UpdateDisplacement(k1, k2, k3, k4, o.d_un)
    IN [o EXCEPT !.d_udn = k1,
                 !.d_un_temp = un3,
                 !.d_un = un,
                 !.d_horizons = CheckBonds(o.d_horizons, un),
                 !.evals = <<o.d_un, un1, un2, un3>>]

RK4_runtime ==
    /\ kind = "RK4"
    /\ calls < MaxCalls
    /\ \E new \in {RK4_step(Self)} :
          /\ d_udn' = new.d_udn
          /\ d_un_temp' = new.d_un_temp
          /\ d_un' = new.d_un
          /\ d_horizons' = new.d_horizons
          /\ last' = [FixedCall(d_horizons) EXCEPT !.evals = new.evals]
    /\ calls' = calls + 1
    /\ UNCHANGED <<outside, kind, model, d_uddn, h_dt, h_force_load_scale, d_pn, h_damage>>

\* RK4Optimised.runtime on the buffers of the object o: every one of the
\* four CalcBondForce dispatches runs the failure test on the adjacency
RK4Optimised_step(o) ==
    LET F(Hz, Un) == ReduceForce(BondForces(Hz, Un), o.h_force_load_scale)
        k1  == F(o.d_horizons, o.d_un)
        hz1 == CheckBonds(o.d_horizons, o.d_un)
        un1 == RK4PartialUpdateDisplacement(k1, o.d_un)
        k2  == F(hz1, un1)
        hz2 == CheckBonds(hz1, un1)
        un2 == RK4PartialUpdateDisplacement(k2, o.d_un)
        k3  == F(hz2, un2)
        hz3 == CheckBonds(hz2, un2)
        un3 == RK4PartialUpdateDisplacement2(k3, o.d_un)
        k4  == F(hz3, un3)
        hz4 == CheckBonds(hz3, un3)
    IN [o EXCEPT !.d_udn = k1,
                 !.d_un_temp = un3,
                 !.d_un = RK4UpdateDisplacement(k1, k2, k3, k4, o.d_un),
                 !.d_horizons = hz4,
                 !.evals = <<o.d_un, un1, un2, un3>>]

RK4Optimised_runtime ==
    /\ kind = "RK4Optimised"
    /\ calls < MaxCalls
    /\ \E new \in {RK4Optimised_step(Self)} :
          /\ d_udn' = new.d_udn
          /\ d_un_temp' = new.d_un_temp
          /\ d_un' = new.d_un
          /\ d_horizons' = new.d_horizons
          /\ last' = [FixedCall(new.d_horizons) EXCEPT !.evals = new.evals]
    /\ calls' = calls + 1
    /\ UNCHANGED <<outside, kind, model, d_uddn, h_dt, h_force_load_scale, d_pn, h_damage>>

(* ---------------------------------------------------------------------- *)
(* Adaptive classes: time-step control                                    *)
(* ---------------------------------------------------------------------- *)

\* h_dt / 1.1 and h_dt * 1.1
Shrink(dt) == (dt * 10) \div 11

Grow(dt) == (dt * 11) \div 10

\* the change of h_dt is exact in the fixed-point scale (bound MaxAdapt)
WithinAdaptBound(error) ==
    /\ FloatGt(error, error_size_max) => (h_dt * 10) % 11 = 0
    /\ (~FloatGt(error, error_size_max) /\ FloatLt(error, error_size_min))
          => (h_dt * 11) % 10 = 0

\* faulty variant of adapt_time_step: the rejection is not flagged to
\* runtime (RejectedStepCommitsNothing must fail under it)
adapt_time_step_noflag(error) ==
    IF FloatGt(error, error_size_max)
    THEN [adapt |-> 0, h_dt |-> Shrink(h_dt)]
    ELSE IF FloatLt(error, error_size_min)
         THEN [adapt |-> 0, h_dt |-> Grow(h_dt)]
         ELSE [adapt |-> 0, h_dt |-> h_dt]

\* faulty variant of adapt_time_step: a rejection leaves h_dt as it is
\* (EventualAcceptance must fail under it)
adapt_time_step_stuck(error) ==
    IF FloatGt(error, error_size_max)
    THEN [adapt |-> 1, h_dt |-> h_dt]
    ELSE IF FloatLt(error, error_size_min)
         THEN [adapt |-> 0, h_dt |-> Grow(h_dt)]
         ELSE [adapt |-> 0, h_dt |-> h_dt]

\* faulty variant of adapt_time_step: a rejection divides h_dt by 1.1 twice
\* (BoundedTimeStepAdjustment must fail under it)
adapt_time_step_twice(error) ==
    IF FloatGt(error, error_size_max)
    THEN [adapt |-> 1, h_dt |-> Shrink(Shrink(h_dt))]
    ELSE IF FloatLt(error, error_size_min)
         THEN [adapt |-> 0, h_dt |-> Grow(h_dt)]
         ELSE [adapt |-> 0, h_dt |-> h_dt]

\* adapt_time_step: `error` is np.mean(np.linalg.norm(h_errorn, axis=1)) of
\* the error buffer read back from the device; returns the flag and the new h_dt
adapt_time_step(error) ==
    IF FloatGt(error, error_size_max)
    THEN [adapt |-> 1, h_dt |-> Shrink(h_dt)]
    ELSE IF FloatLt(error, error_size_min)
         THEN [adapt |-> 0, h_dt |-> Grow(h_dt)]
         ELSE [adapt |-> 0, h_dt |-> h_dt]

\* UpdateDisplacement of the adaptive classes, dispatched with the buffer of
\* the higher-order solution and the time step: free degrees of freedom take
\* the solution, constrained ones advance by dt times the prescribed rate
AdaptiveUpdateDisplacement(Un_new, Un, dt) ==
    [i \in Nodes |->
        IF model.bc_types[i] = 2 THEN Un_new[i]
        ELSE Un[i] + MulDt(dt, model.bc_values[i])]

\* what a runtime call of an adaptive class records
AdaptiveCall(error, hz_stage) ==
    [op |-> "runtime", adapt |-> adapt_time_step(error).adapt, error |-> error,
     committed |-> adapt_time_step(error).adapt # 1,
     arg |-> 0, ret |-> <<>>, evals |-> <<>>,
     dt_stage |-> h_dt, dt_commit |-> adapt_time_step(error).h_dt,
     un_before |-> d_un, hz_before |-> d_horizons, hz_stage |-> hz_stage]

(* ---------------------------------------------------------------------- *)
(* Heun-Euler                                                             *)
(* ---------------------------------------------------------------------- *)

\* PartialUpdateDisplacement of Heun-Euler: first-order solution u + dt k1
HeunPartialUpdateDisplacement(K1, Un2, dt) ==
    [i \in Nodes |-> Un2[i] + MulDt(dt, K1[i])]

\* second-order solution u + dt/2 (k1 + k2) written to d_un2_1 by CheckError
HeunCheckError(K1, K2, Un2, dt) ==
    [i \in Nodes |-> Un2[i] + Quot(MulDt(dt, K1[i] + K2[i]), 2)]

\* faulty variant of HeunEuler.runtime: a rejected attempt is retried inside
\* the call with the shrunk time step and its result committed
\* (RejectionSurfacesToCaller must fail under it)
HeunEuler_runtime_retry(Errors) ==
    /\ kind = "HeunEuler"
    /\ calls < MaxCalls
    /\ LET F(Un) == CalcBondForce(d_horizons, Un, h_force_load_scale)
       IN \E error \in {e \in Errors : WithinAdaptBound(e)} :
          \E a \in {adapt_time_step(error)} :
          \E k1 \in {F(d_un)} :
          \E un1 \in {HeunPartialUpdateDisplacement(k1, d_un, a.h_dt)} :
          \E k2 \in {F(un1)} :
          \E un2_1 \in {HeunCheckError(k1, k2, d_un, a.h_dt)} :
          \E un2 \in {AdaptiveUpdateDisplacement(un2_1, d_un, a.h_dt)} :
             /\ d_udn' = k1
             /\ d_un_temp' = un1
             /\ h_dt' = a.h_dt
             /\ d_un' = un2
             /\ d_horizons' = CheckBonds(d_horizons, un2)
             /\ last' = [AdaptiveCall(error, d_horizons) EXCEPT !.committed = TRUE]
             /\ calls' = calls + 1
    /\ UNCHANGED <<outside, kind, model, d_uddn, h_force_load_scale, d_pn, h_damage>>

\* Errors, here and in the other adaptive classes: the values the error norm
\* read back in this call may take
HeunEuler_runtime(Errors) ==
    /\ kind = "HeunEuler"
    /\ calls < MaxCalls
    /\ LET F(Un) == CalcBondForce(d_horizons, Un, h_force_load_scale)
       IN \E k1 \in {F(d_un)} :
          \E un1 \in {HeunPartialUpdateDisplacement(k1, d_un, h_dt)} :
          \E k2 \in {F(un1)} :
          \E un2_1 \in {HeunCheckError(k1, k2, d_un, h_dt)} :
          \E error \in {e \in Errors : WithinAdaptBound(e)} :
          \E a \in {adapt_time_step(error)} :
          \E un2 \in {AdaptiveUpdateDisplacement(un2_1, d_un, a.h_dt)} :
             /\ d_udn' = k1
             /\ d_un_temp' = un1
             /\ h_dt' = a.h_dt
             /\ IF a.adapt = 1
                THEN UNCHANGED <<d_un, d_horizons>>
                ELSE /\ d_un' = un2
                     /\ d_horizons' = CheckBonds(d_horizons, un2)
             /\ last' = AdaptiveCall(error, d_horizons)
             /\ calls' = IF a.adapt = 1 THEN calls ELSE calls + 1
    /\ UNCHANGED <<outside, kind, model, d_uddn, h_force_load_scale, d_pn, h_damage>>

HeunEulerOptimised_runtime(Errors) ==
    /\ kind = "HeunEulerOptimised"
    /\ calls < MaxCalls
    /\ LET F(Hz, Un) == ReduceForce(BondForces(Hz, Un), h_force_load_scale)
       IN \E k1 \in {F(d_horizons, d_un)}, hz1 \in {CheckBonds(d_horizons, d_un)} :
          \E un1 \in {HeunPartialUpdateDisplacement(k1, d_un, h_dt)} :
          \E k2 \in {F(hz1, un1)}, hz2 \in {CheckBonds(hz1, un1)} :
          \E un2_1 \in {HeunCheckError(k1, k2, d_un, h_dt)} :
          \E error \in {e \in Errors : WithinAdaptBound(e)} :
          \E a \in {adapt_time_step(error)} :
          \E un2 \in {AdaptiveUpdateDisplacement(un2_1, d_un, a.h_dt)} :
             /\ d_udn' = k1
             /\ d_un_temp' = un1
             /\ h_dt' = a.h_dt
             /\ IF a.adapt = 1
                THEN /\ d_un' = d_un
                     /\ d_horizons' = hz2
                ELSE /\ d_un' = un2
                     /\ d_horizons' = CheckBonds(hz2, un2)
             /\ last' = AdaptiveCall(error, hz2)
             /\ calls' = IF a.adapt = 1 THEN calls ELSE calls + 1
    /\ UNCHANGED <<outside, kind, model, d_uddn, h_force_load_scale, d_pn, h_damage>>

(* ---------------------------------------------------------------------- *)
(* Dormand-Prince                                                         *)
(* ---------------------------------------------------------------------- *)

\* c * (dt * k) for the tableau entry c = num / den
Tab(num, den, dt, k) == Quot(num * MulDt(dt, k), den)

PartialUpdateDisplacement(K1, Un, dt) ==
    [i \in Nodes |-> Un[i] + Tab(1, 5, dt, K1[i])]

PartialUpdateDisplacement2(K1, K2, Un, dt) ==
    [i \in Nodes |-> Un[i] + Tab(3, 40, dt, K1[i]) + Tab(9, 40, dt, K2[i])]

PartialUpdateDisplacement3(K1, K2, K3, Un, dt) ==
    [i \in Nodes |-> Un[i] + Tab(44, 45, dt, K1[i]) - Tab(56, 15, dt, K2[i])
                           + Tab(32, 9, dt, K3[i])]

PartialUpdateDisplacement4(K1, K2, K3, K4, Un, dt) ==
    [i \in Nodes |-> Un[i] + Tab(19372, 6561, dt, K1[i]) - Tab(25360, 2187, dt, K2[i])
                           + Tab(64448, 6561, dt, K3[i]) - Tab(212, 729, dt, K4[i])]

PartialUpdateDisplacement5(K1, K2, K3, K4, K5, Un, dt) ==
    [i \in Nodes |-> Un[i] + Tab(9017, 3168, dt, K1[i]) - Tab(355, 33, dt, K2[i])
                           + Tab(46732, 5247, dt, K3[i]) + Tab(49, 176, dt, K4[i])
                           - Tab(5103, 18656, dt, K5[i])]

PartialUpdateDisplacement6(K1, K3, K4, K5, K6, Un, dt) ==
    [i \in Nodes |-> Un[i] + Tab(35, 384, dt, K1[i]) + Tab(500, 1113, dt, K3[i])
                           + Tab(125, 192, dt, K4[i]) - Tab(2187, 6784, dt, K5[i])
                           + Tab(11, 84, dt, K6[i])]

DormandPrince_runtime(Errors) ==
    /\ kind = "DormandPrince"
    /\ calls < MaxCalls
    /\ LET F(Un) == CalcBondForce(d_horizons, Un, h_force_load_scale)
       IN \E k1 \in {F(d_un)} :
          \E k2 \in {F(PartialUpdateDisplacement(k1, d_un, h_dt))} :
          \E k3 \in {F(PartialUpdateDisplacement2(k1, k2, d_un, h_dt))} :
          \E k4 \in {F(PartialUpdateDisplacement3(k1, k2, k3, d_un, h_dt))} :
          \E k5 \in {F(PartialUpdateDisplacement4(k1, k2, k3, k4, d_un, h_dt))} :
          \E k6 \in {F(PartialUpdateDisplacement5(k1, k2, k3, k4, k5, d_un, h_dt))} :
          \E un_temp \in {PartialUpdateDisplacement6(k1, k3, k4, k5, k6, d_un, h_dt)} :
          \E error \in {e \in Errors : WithinAdaptBound(e)} :
          \E a \in {adapt_time_step(error)} :
          \E un5 \in {AdaptiveUpdateDisplacement(un_temp, d_un, a.h_dt)} :
             /\ d_udn' = k1
             /\ d_un_temp' = un_temp
             /\ h_dt' = a.h_dt
             /\ IF a.adapt = 1
                THEN UNCHANGED <<d_un, d_horizons>>
                ELSE /\ d_un' = un5
                     /\ d_horizons' = CheckBonds(d_horizons, un5)
             /\ last' = AdaptiveCall(error, d_horizons)
             /\ calls' = IF a.adapt = 1 THEN calls ELSE calls + 1
    /\ UNCHANGED <<outside, kind, model, d_uddn, h_force_load_scale, d_pn, h_damage>>

DormandPrinceOptimised_runtime(Errors) ==
    /\ kind = "DormandPrinceOptimised"
    /\ calls < MaxCalls
    /\ LET F(Hz, Un) == ReduceForce(BondForces(Hz, Un), h_force_load_scale)
       IN \E k1 \in {F(d_horizons, d_un)}, hz1 \in {CheckBonds(d_horizons, d_un)} :
          \E u1 \in {PartialUpdateDisplacement(k1, d_un, h_dt)} :
          \E k2 \in {F(hz1, u1)}, hz2 \in {CheckBonds(hz1, u1)} :
          \E u2 \in {PartialUpdateDisplacement2(k1, k2, d_un, h_dt)} :
          \E k3 \in {F(hz2, u2)}, hz3 \in {CheckBonds(hz2, u2)} :
          \E u3 \in {PartialUpdateDisplacement3(k1, k2, k3, d_un, h_dt)} :
          \E k4 \in {F(hz3, u3)}, hz4 \in {CheckBonds(hz3, u3)} :
          \E u4 \in {PartialUpdateDisplacement4(k1, k2, k3, k4, d_un, h_dt)} :
          \E k5 \in {F(hz4, u4)}, hz5 \in {CheckBonds(hz4, u4)} :
          \E u5 \in {PartialUpdateDisplacement5(k1, k2, k3, k4, k5, d_un, h_dt)} :
          \E k6 \in {F(hz5, u5)}, hz6 \in {CheckBonds(hz5, u5)} :
          \E un_temp \in {PartialUpdateDisplacement6(k1, k3, k4, k5, k6, d_un, h_dt)} :
          \E hz7 \in {CheckBonds(hz6, un_temp)} :
          \E error \in {e \in Errors : WithinAdaptBound(e)} :
          \E a \in {adapt_time_step(error)} :
          \E un5 \in {AdaptiveUpdateDisplacement(un_temp, d_un, a.h_dt)} :
             /\ d_udn' = k1
             /\ d_un_temp' = un_temp
             /\ h_dt' = a.h_dt
             /\ IF a.adapt = 1
                THEN /\ d_un' = d_un
                     /\ d_horizons' = hz7
                ELSE /\ d_un' = un5
                     /\ d_horizons' = CheckBonds(hz7, un5)
             /\ last' = AdaptiveCall(error, hz7)
             /\ calls' = IF a.adapt = 1 THEN calls ELSE calls + 1
    /\ UNCHANGED <<outside, kind, model, d_uddn, h_force_load_scale, d_pn, h_damage>>

(* ---------------------------------------------------------------------- *)
(* Operations common to the classes                                       *)
(* ---------------------------------------------------------------------- *)

\* the value None
None == [none |-> TRUE, num |-> 0, den |-> 1]

\* the number num / den
Number(num, den) == [none |-> FALSE, num |-> num, den |-> den]

\* the nodes write counts as tip nodes: h_tip_types[i] == 1
TipNodes == {i \in Nodes : model.tip_types[i] = 1}

\* the sum the loop of write accumulates over the tip nodes
TipSum(Field) == SumTo([i \in Nodes |-> IF i \in TipNodes THEN Field[i] ELSE 0], nnodes)

\* tip_displacement: the sum divided by the tip-node count tmp, None if tmp = 0
tip_displacement ==
    IF Cardinality(TipNodes) # 0
    THEN Number(TipSum(d_un), Cardinality(TipNodes))
    ELSE None

\* tip_shear_force: the sum over the tip nodes of the buffer write reads back
\* (h_uddn in the Euler-Cromer classes, h_udn1 / h_udn / h_k1dn in the others)
tip_shear_force ==
    Number(TipSum(IF kind \in {"EulerCromer", "EulerCromerOptimised"}
                  THEN d_uddn ELSE d_udn), 1)

\* the value write returns: the damage alone in EulerStochastic, damage and
\* tip displacement in VelocityVerletOpenCL, the triple in the other classes
write_return(damage) ==
    IF kind = "EulerStochastic" THEN <<damage>>
    ELSE IF kind = "VelocityVerletOpenCL" THEN <<damage, tip_displacement>>
    ELSE <<damage, tip_displacement, tip_shear_force>>

\* faulty variant of write: the rate buffer is copied from the host array to
\* the device instead of the other way (WriteIsSideEffectFree must fail
\* under it)
write_copyback ==
    /\ h_damage' = CalculateDamage(d_horizons, model.horizons_lengths)
    /\ d_udn' = ZeroField
    /\ last' = [OtherCall("write") EXCEPT
                   !.ret = write_return(CalculateDamage(d_horizons,
                                                       model.horizons_lengths))]
    /\ UNCHANGED <<outside, kind, model, d_horizons, d_un, d_un_temp, d_uddn, h_dt,
                   h_force_load_scale, d_pn, calls>>

write ==
    /\ h_damage' = CalculateDamage(d_horizons, model.horizons_lengths)
    /\ last' = [OtherCall("write") EXCEPT
                   !.ret = write_return(CalculateDamage(d_horizons,
                                                       model.horizons_lengths))]
    /\ UNCHANGED <<outside, kind, model, d_horizons, d_un, d_un_temp, d_udn, d_uddn, h_dt,
                   h_force_load_scale, d_pn, calls>>

\* faulty variant of incrementLoad: the count of force-BC nodes is not
\* tested (IncrementLoadIsScalarUpdate must fail under it)
incrementLoad_always(load_scale) ==
    /\ kind # "EulerStochastic"
    /\ h_force_load_scale' = load_scale
    /\ last' = [OtherCall("incrementLoad") EXCEPT !.arg = load_scale]
    /\ UNCHANGED <<outside, kind, model, d_horizons, d_un, d_un_temp, d_udn, d_uddn, h_dt,
                   d_pn, h_damage, calls>>

incrementLoad(load_scale) ==
    /\ kind # "EulerStochastic"
    /\ h_force_load_scale' =
          IF model.num_force_bc_nodes # 0 THEN load_scale ELSE h_force_load_scale
    /\ last' = [OtherCall("incrementLoad") EXCEPT !.arg = load_scale]
    /\ UNCHANGED <<outside, kind, model, d_horizons, d_un, d_un_temp, d_udn, d_uddn, h_dt,
                   d_pn, h_damage, calls>>

Next ==
    \/ EulerOpenCL_runtime
    \/ EulerOpenCLOptimised_runtime
    \/ EulerOpenCLOptimisedLumped_runtime
    \/ EulerCromer_runtime
    \/ EulerCromerOptimised_runtime
    \/ VelocityVerletOpenCL_runtime
    \/ RK4_runtime
    \/ RK4Optimised_runtime
    \/ HeunEuler_runtime(ErrorValues)
    \/ HeunEulerOptimised_runtime(ErrorValues)
    \/ DormandPrince_runtime(ErrorValues)
    \/ DormandPrinceOptimised_runtime(ErrorValues)
    \/ \E step \in 1..MaxCalls : EulerStochastic_runtime(step)
    \/ \E steps \in 1..MaxCalls, pn \in NoiseFields : reset(steps, pn)
    \/ write
    \/ \E load_scale \in 0..MaxLoad : incrementLoad(load_scale)

Spec == Init /\ [][Next]_vars

(* ---------------------------------------------------------------------- *)
(* Euler class and the regression loop                                    *)
(*                                                                        *)
(* Arrays are nnodes x 3. Displacements are counted in units of           *)
(* 0.5 * 0.00001, dt in units of 1e-3, the dampening factor in units of   *)
(* 1 / DampUnit; forces are even numbers of the matching unit, so every   *)
(* product below is exact.                                                *)
(* ---------------------------------------------------------------------- *)

Components == 1..3

\* the dampening factor 1.0
DampUnit == 2

\* no OpenCL integrator object exists
NoDevice ==
    /\ d_horizons = <<>>
    /\ d_un = <<>>
    /\ d_un_temp = <<>>
    /\ d_udn = <<>>
    /\ d_uddn = <<>>
    /\ h_dt = 0
    /\ h_force_load_scale = 0
    /\ d_pn = <<>>
    /\ h_damage = <<>>
    /\ calls = 0
    /\ last = NoCall

\* Euler.__init__(self, dt, dampening=1.0); args holds the optional argument
Euler(dt, args) ==
    [dt |-> dt, dampening |-> IF Len(args) = 0 THEN DampUnit ELSE args[1]]

\* faulty variant of Euler.__call__: the dampening factor is left out
\* (EulerUpdateFormula must fail under it)
Euler_call_undamped(self, disp, force) ==
    [i \in Nodes |-> [c \in Components |-> disp[i][c] + self.dt * force[i][c]]]

\* Euler.__call__(self, u, f): a new array, u + self.dt * f * self.dampening
Euler_call(self, disp, force) ==
    [i \in Nodes |-> [c \in Components |->
        disp[i][c] + Quot(self.dt * force[i][c] * self.dampening, DampUnit)]]

DisplacementVectors == {<<0, 0, 0>>, <<1, -1, 2>>, <<-3, 0, 5>>}

ForceVectors == {<<0, 0, 0>>, <<2, -2, 4>>, <<-4, 6, 2>>}

zeros == [i \in Nodes |-> <<0, 0, 0>>]

\* an Euler object and two arrays, before any call
EulerInit ==
    /\ NoDevice
    /\ kind = "Euler"
    /\ model = <<>>
    /\ \E dt \in 1..2, args \in {<<>>, <<1>>, <<DampUnit>>, <<3>>} :
          integrator = Euler(dt, args)
    /\ u \in [Nodes -> DisplacementVectors]
    /\ f \in [Nodes -> ForceVectors]
    /\ t = 0
    /\ result = <<>>
    /\ pair = <<>>
    /\ pending = {}
    /\ domain = <<>>

\* result = integrator(u, f)
Euler_call_action ==
    /\ result' = Euler_call(integrator, u, f)
    /\ UNCHANGED <<device, integrator, u, f, t, pair, pending, domain>>

EulerNext == Euler_call_action

EulerSpec == EulerInit /\ [][EulerNext]_vars

\* load_rate = 0.00001
load_rate == 2

\* for t in range(1, 11)
Steps == 10

\* the fixture's model: nodes of the left-hand and right-hand boundary
SquareModels == {[lhs |-> {1}, rhs |-> {3}], [lhs |-> {1, 2}, rhs |-> {3}]}

\* model.bond_stretch(u); model.damage(); model.bond_force(): some force array
bond_force == [Nodes -> ForceVectors]

\* arr[rows, cols] = value, in place
Assign(arr, rows, cols, value) ==
    [i \in Nodes |-> [c \in Components |->
        IF i \in rows /\ c \in cols THEN value ELSE arr[i][c]]]

\* the four boundary assignments of the loop body, in their order
ApplyBoundaryConditions(arr, step) ==
    LET a1 == Assign(arr, model.lhs, {2, 3}, 0)
        a2 == Assign(a1, model.rhs, {2, 3}, 0)
        a3 == Assign(a2, model.lhs, {1}, -Quot(step * load_rate, 2))
    IN Assign(a3, model.rhs, {1}, Quot(step * load_rate, 2))

\* np.ones(len(model.rhs)) can be assigned to the rows model.lhs
Broadcastable ==
    Cardinality(model.rhs) \in {1, Cardinality(model.lhs)}

RegressionInit ==
    /\ NoDevice
    /\ kind = "Euler"
    /\ model \in SquareModels
    /\ integrator = Euler(1, <<>>)
    /\ u = zeros
    /\ f = <<>>
    /\ t = 0
    /\ result = <<>>
    /\ pair = <<>>
    /\ pending = {}
    /\ domain = <<>>

\* faulty variant of the loop body: the boundary values are written before
\* the Euler update instead of after it (BoundaryOverride must fail under it)
regression_bc_first ==
    /\ t < Steps
    /\ Broadcastable
    /\ \E force \in bond_force :
          /\ f' = force
          /\ result' = Euler_call(integrator, u, force)
          /\ u' = Euler_call(integrator, ApplyBoundaryConditions(u, t + 1), force)
    /\ t' = t + 1
    /\ UNCHANGED <<device, integrator, pair, pending, domain>>

\* one pass of the loop body of the regression fixture
regression ==
    /\ t < Steps
    /\ Broadcastable
    /\ \E force \in bond_force :
          /\ f' = force
          /\ result' = Euler_call(integrator, u, force)
          /\ u' = ApplyBoundaryConditions(Euler_call(integrator, u, force), t + 1)
    /\ t' = t + 1
    /\ UNCHANGED <<device, integrator, pair, pending, domain>>

RegressionNext == regression

RegressionSpec == RegressionInit /\ [][RegressionNext]_vars

(* ---------------------------------------------------------------------- *)
(* Two integrator objects of different classes, constructed on the same   *)
(* model and driven by the same sequence of runtime and incrementLoad     *)
(* calls                                                                  *)
(* ---------------------------------------------------------------------- *)

\* the classes compared: a class and its optimised or lumped counterpart
PairKinds ==
    { <<"EulerOpenCL", "EulerOpenCLOptimised">>,
      <<"RK4", "RK4Optimised">>,
      <<"EulerOpenCLOptimised", "EulerOpenCLOptimisedLumped">> }

\* the buffers of an object after construction: adjacency copied from the
\* model, displacement and rate buffers as allocated
Constructed(un, udn) ==
    [d_horizons |-> model.horizons, d_un |-> un, d_un_temp |-> un,
     d_udn |-> udn, h_force_load_scale |-> 0, evals |-> <<>>]

\* runtime of the class k on the buffers of the object o
runtime_step(k, o) ==
    CASE k = "EulerOpenCL" -> EulerOpenCL_step(o)
      [] k = "EulerOpenCLOptimised" -> EulerOpenCLOptimised_step(o)
      [] k = "EulerOpenCLOptimisedLumped" -> EulerOpenCLOptimisedLumped_step(o)
      [] k = "RK4" -> RK4_step(o)
      [] k = "RK4Optimised" -> RK4Optimised_step(o)

\* incrementLoad on the object o
incrementLoad_step(o, load_scale) ==
    IF model.num_force_bc_nodes # 0
    THEN [o EXCEPT !.h_force_load_scale = load_scale]
    ELSE o

PairInit ==
    /\ NoDevice
    /\ kind = "pair"
    /\ model \in Models
    /\ integrator = [dt |-> 0, dampening |-> 0]
    /\ u = <<>>
    /\ f = <<>>
    /\ t = 0
    /\ result = <<>>
    /\ pending = {}
    /\ domain = <<>>
    /\ \E kinds \in PairKinds :
       \E un1 \in UninitFields, udn1 \in UninitFields :
       \E un2 \in UninitFields, udn2 \in UninitFields :
          pair = [kinds |-> kinds,
                  a |-> Constructed(un1, udn1),
                  b |-> Constructed(un2, udn2),
                  zeroed |-> /\ un1 = ZeroField /\ udn1 = ZeroField
                             /\ un2 = ZeroField /\ udn2 = ZeroField,
                  calls |-> 0]

\* runtime(model) on both objects
pair_runtime ==
    /\ pair.calls < MaxPairCalls
    /\ pair' = [pair EXCEPT !.a = runtime_step(pair.kinds[1], @),
                            !.b = runtime_step(pair.kinds[2], @),
                            !.calls = @ + 1]
    /\ UNCHANGED <<device, integrator, u, f, t, result, pending, domain>>

\* incrementLoad(model, load_scale) on both objects
pair_incrementLoad(load_scale) ==
    /\ pair' = [pair EXCEPT !.a = incrementLoad_step(@, load_scale),
                            !.b = incrementLoad_step(@, load_scale)]
    /\ UNCHANGED <<device, integrator, u, f, t, result, pending, domain>>

PairNext ==
    \/ pair_runtime
    \/ \E load_scale \in 0..MaxLoad : pair_incrementLoad(load_scale)

PairSpec == PairInit /\ [][PairNext]_vars

(* ---------------------------------------------------------------------- *)
(* Construction from a model whose arrays may have the wrong length       *)
(* ---------------------------------------------------------------------- *)

\* every per-node array of the model m has nnodes entries
WellFormed(m) ==
    /\ Len(m.horizons) = nnodes
    /\ Len(m.horizons_lengths) = nnodes
    /\ Len(m.bc_types) = nnodes
    /\ Len(m.bc_values) = nnodes
    /\ Len(m.force_bc_types) = nnodes
    /\ Len(m.force_bc_values) = nnodes
    /\ Len(m.tip_types) = nnodes

\* models with one array an entry short (arrays no runtime kernel is handed)
ShortModels ==
    { [PullModel EXCEPT !.tip_types = <<0, 1>>],
      [LoadModel EXCEPT !.horizons_lengths = <<1, 2>>] }

\* a model object and no integrator object
SetupInit ==
    /\ NoDevice
    /\ NoOutside
    /\ kind = "none"
    /\ model \in Models \cup ShortModels

\* __init__(self, model) of the class k: the host arrays are taken from the
\* model as they are and the device buffers are created from them
construct(k) ==
    /\ kind = "none"
    /\ kind' = k
    /\ d_horizons' = model.horizons
    /\ d_un' \in UninitFields
    /\ d_udn' \in UninitFields
    /\ d_un_temp' = d_un'
    /\ d_uddn' = d_udn'
    /\ h_dt' = DtUnit
    /\ h_force_load_scale' = 0
    /\ last' = [NoCall EXCEPT !.un_before = d_un', !.hz_before = model.horizons,
                              !.hz_stage = model.horizons]
    /\ UNCHANGED <<outside, model, d_pn, h_damage, calls>>

SetupNext ==
    \/ \E k \in {"EulerOpenCL", "DormandPrince"} : construct(k)
    \/ EulerOpenCL_runtime
    \/ DormandPrince_runtime(ErrorValues)

SetupSpec == SetupInit /\ [][SetupNext]_vars

(* ---------------------------------------------------------------------- *)
(* The kernels of one step, work-item by work-item                        *)
(* ---------------------------------------------------------------------- *)

\* the kernels runtime dispatches, in dispatch order
Pipeline ==
    IF kind = "EulerOpenCL"
    THEN <<"time_marching_1", "time_marching_2", "check_bonds">>
    ELSE <<"update_displacement", "calc_bond_force", "reduce_force">>

\* the kernels that are dispatched over (nnodes, max_horizon_length)
BondKernels == {"check_bonds", "calc_bond_force"}

\* global work size of a dispatch: one work-item per (node, slot) for the
\* bond kernels, one per node (slot 0) for the others
WorkItems(kernel) ==
    IF kernel \in BondKernels THEN Nodes \X Slots ELSE Nodes \X {0}

\* position of the running kernel in runtime, 0 outside runtime
Position ==
    IF \E n \in 1..3 : Pipeline[n] = last.op
    THEN CHOOSE n \in 1..3 : Pipeline[n] = last.op
    ELSE 0

\* what the host may enqueue next: the next kernel of runtime, or, between
\* two runtime calls, the first kernel of runtime or the damage kernel of write
Enqueueable ==
    IF Position \in 1..2 THEN {Pipeline[Position + 1]}
    ELSE {Pipeline[1]} \cup (IF last.op = "reduce_damage" THEN {} ELSE {"reduce_damage"})

fixture == <<integrator, u, f, t, result, pair, domain>>

WorkItemInit ==
    /\ kind \in {"EulerOpenCL", "EulerOpenCLOptimised"}
    /\ model \in Models
    /\ d_horizons = model.horizons
    /\ d_un \in UninitFields
    /\ d_udn \in UninitFields
    /\ d_un_temp = d_un
    /\ d_uddn = d_udn
    /\ h_dt = DtUnit
    /\ h_force_load_scale = 0
    /\ d_pn = <<>>
    /\ h_damage = [i \in Nodes |-> [num |-> 0, den |-> 1]]
    /\ calls = 0
    /\ last = [NoCall EXCEPT !.un_before = d_un, !.hz_before = model.horizons,
                             !.hz_stage = model.horizons]
    /\ NoOutside

\* a kernel dispatch on the in-order queue: it starts when every work-item
\* of the dispatch before it has finished
enqueue(kernel) ==
    /\ pending = {}
    /\ kernel \in Enqueueable
    /\ kernel = Pipeline[1] => calls < MaxCalls
    /\ pending' = WorkItems(kernel)
    /\ calls' = IF kernel = Pipeline[1] THEN calls + 1 ELSE calls
    /\ last' = OtherCall(kernel)
    /\ UNCHANGED <<fixture, kind, model, d_horizons, d_un, d_un_temp, d_udn, d_uddn,
                   h_dt, h_force_load_scale, d_pn, h_damage>>

\* work-item i of TimeMarching1 / UpdateDisplacement
update_displacement_item(i) ==
    /\ last.op \in {"time_marching_1", "update_displacement"}
    /\ <<i, 0>> \in pending
    /\ pending' = pending \ {<<i, 0>>}
    /\ d_un' = [d_un EXCEPT ![i] = UpdateDisplacement(d_udn, d_un, DtUnit)[i]]
    /\ last' = [last EXCEPT !.arg = <<i, 0>>]
    /\ UNCHANGED <<fixture, kind, model, d_horizons, d_un_temp, d_udn, d_uddn,
                   h_dt, h_force_load_scale, d_pn, h_damage, calls>>

\* work-item i of TimeMarching2 / work-group i of ReduceForce
force_item(i) ==
    /\ last.op \in {"time_marching_2", "reduce_force"}
    /\ <<i, 0>> \in pending
    /\ pending' = pending \ {<<i, 0>>}
    /\ d_udn' = [d_udn EXCEPT ![i] =
                    IF last.op = "time_marching_2"
                    THEN CalcBondForce(d_horizons, d_un, h_force_load_scale)[i]
                    ELSE ReduceForce(BondForces(d_horizons, d_un), h_force_load_scale)[i]]
    /\ last' = [last EXCEPT !.arg = <<i, 0>>]
    /\ UNCHANGED <<fixture, kind, model, d_horizons, d_un, d_un_temp, d_uddn,
                   h_dt, h_force_load_scale, d_pn, h_damage, calls>>

\* the faulty deactivation that breaks a bond only while the flag the
\* neighbour holds for the same bond is still set
check_bonds_item_mirror(i, s) ==
    /\ last.op \in BondKernels
    /\ <<i, s>> \in pending
    /\ pending' = pending \ {<<i, s>>}
    /\ d_horizons' = [d_horizons EXCEPT ![i][s] =
                         IF /\ @ # -1
                            /\ ExceedsCriticalStretch(d_un, i, @)
                            /\ \E r \in Slots : d_horizons[@][r] = i
                         THEN -1 ELSE @]
    /\ last' = [last EXCEPT !.arg = <<i, s>>]
    /\ UNCHANGED <<fixture, kind, model, d_un, d_un_temp, d_udn, d_uddn,
                   h_dt, h_force_load_scale, d_pn, h_damage, calls>>

\* work-item (i, s) of CheckBonds / of the failure test of CalcBondForce: it
\* reads its own flag and the displacements of the two ends of the bond,
\* and writes its own flag
check_bonds_item(i, s) ==
    /\ last.op \in BondKernels
    /\ <<i, s>> \in pending
    /\ pending' = pending \ {<<i, s>>}
    /\ d_horizons' = [d_horizons EXCEPT ![i][s] =
                         IF @ # -1 /\ ExceedsCriticalStretch(d_un, i, @)
                         THEN -1 ELSE @]
    /\ last' = [last EXCEPT !.arg = <<i, s>>]
    /\ UNCHANGED <<fixture, kind, model, d_un, d_un_temp, d_udn, d_uddn,
                   h_dt, h_force_load_scale, d_pn, h_damage, calls>>

\* work-group i of ReduceDamage, dispatched by write
reduce_damage_item(i) ==
    /\ last.op = "reduce_damage"
    /\ <<i, 0>> \in pending
    /\ pending' = pending \ {<<i, 0>>}
    /\ h_damage' = [h_damage EXCEPT ![i] =
                       CalculateDamage(d_horizons, model.horizons_lengths)[i]]
    /\ last' = [last EXCEPT !.arg = <<i, 0>>]
    /\ UNCHANGED <<fixture, kind, model, d_horizons, d_un, d_un_temp, d_udn, d_uddn,
                   h_dt, h_force_load_scale, d_pn, calls>>

WorkItemNext ==
    \/ \E kernel \in {"time_marching_1", "time_marching_2", "check_bonds",
                       "update_displacement", "calc_bond_force", "reduce_force",
                       "reduce_damage"} : enqueue(kernel)
    \/ \E i \in Nodes : update_displacement_item(i)
    \/ \E i \in Nodes : force_item(i)
    \/ \E i \in Nodes, s \in Slots : check_bonds_item(i, s)
    \/ \E i \in Nodes : reduce_damage_item(i)

WorkItemSpec == WorkItemInit /\ [][WorkItemNext]_vars

(* ---------------------------------------------------------------------- *)
(* Domain decomposition                                                   *)
(* ---------------------------------------------------------------------- *)

MaxM == 4
MaxX == 3

\* 1 / 1e-6, the margin added to the width of a subdomain
Micro == 1000000

\* np.amax(coords[:, 0])
amax(xs) == CHOOSE m \in {xs[i] : i \in DOMAIN xs} : \A i \in DOMAIN xs : xs[i] <= m

\* np.floor(x / dX) with dX = maxX / M + 1e-6, for x >= 0: the quotient is
\* x M / (maxX + M 1e-6)
PartOf(x, maxX, M) == (x * M * Micro) \div (maxX * Micro + M)

\* the list built by lines 17-21; the entries are 0-based subdomain indices
NearestNeighbour(M) ==
    <<(<<1>>)>> \o [k \in 1..(M - 2) |-> <<k - 1, k + 1>>] \o <<(<<M - 2>>)>>

decomposeDomain(xs, M, partitionType) ==
    IF partitionType = 1
    THEN [raised |-> FALSE,
          part |-> [i \in DOMAIN xs |-> PartOf(xs[i], amax(xs), M)],
          nearestNeighbour |-> NearestNeighbour(M)]
    ELSE [raised |-> TRUE, part |-> <<>>, nearestNeighbour |-> <<>>]

DecomposeInit ==
    /\ NoDevice
    /\ kind = "decomposeDomain"
    /\ model = PullModel
    /\ integrator = [dt |-> 0, dampening |-> 0]
    /\ u = <<>>
    /\ f = <<>>
    /\ t = 0
    /\ result = <<>>
    /\ pair = <<>>
    /\ pending = {}
    /\ \E xs \in [Nodes -> 0..MaxX], M \in 1..MaxM, partitionType \in {1, 2} :
          domain = [coords |-> xs, M |-> M, partitionType |-> partitionType,
                    called |-> FALSE, raised |-> FALSE,
                    part |-> <<>>, nearestNeighbour |-> <<>>]

decomposeDomain_call ==
    /\ ~domain.called
    /\ \E ret \in {decomposeDomain(domain.coords, domain.M, domain.partitionType)} :
          domain' = [domain EXCEPT !.called = TRUE,
                                   !.raised = ret.raised,
                                   !.part = ret.part,
                                   !.nearestNeighbour = ret.nearestNeighbour]
    /\ UNCHANGED <<device, integrator, u, f, t, result, pair, pending>>

DecomposeNext == decomposeDomain_call

DecomposeSpec == DecomposeInit /\ [][DecomposeNext]_vars

(* ---------------------------------------------------------------------- *)
(* Properties                                                             *)
(* ---------------------------------------------------------------------- *)

\* the bonds of the initial adjacency that are broken in Horizons
Broken(Horizons) ==
    {b \in Nodes \X Slots :
        model.horizons[b[1]][b[2]] # -1 /\ Horizons[b[1]][b[2]] = -1}

\* the call just made is a runtime call of an adaptive class
AdaptiveRuntime == last.op = "runtime" /\ kind \in AdaptiveKinds

\* C1: bond monotonicity. For every integrator class, a bond that is broken
\* before a call of runtime, write or incrementLoad is still broken after it,
\* hence broken after every later sequence of such calls.
BondMonotonicity ==
    last.op \in {"runtime", "write", "incrementLoad"}
        => Broken(last.hz_before) \subseteq Broken(d_horizons)

\* a runtime call made with a bond already broken moved the nodes and left
\* the bond broken
BondStaysBroken ==
    /\ last.op = "runtime"
    /\ Broken(last.hz_before) # {}
    /\ d_un # last.un_before
    /\ Broken(last.hz_before) \subseteq Broken(d_horizons)

\* C2 as stated: no operation of any class, EulerStochastic.reset included,
\* makes a broken bond active again.
NoOperationResetsBrokenFlag ==
    last.op # "init" => Broken(last.hz_before) \subseteq Broken(d_horizons)

\* C2, amended: reset re-creates the device adjacency from the host
\* adjacency, which no call updates, so every bond is active again after
\* it; every other operation leaves broken bonds broken.
ResetRestoresBonds ==
    /\ last.op = "reset" => d_horizons = model.horizons /\ Broken(d_horizons) = {}
    /\ last.op \in {"runtime", "write", "incrementLoad"}
          => \A b \in Broken(last.hz_before) : d_horizons[b[1]][b[2]] = -1

\* reset was called with a broken bond, which is active after it
ResetAfterBreak ==
    /\ last.op = "reset"
    /\ Broken(last.hz_before) # {}
    /\ Broken(d_horizons) = {}

\* C3: a rejected adaptive step commits nothing. In the four adaptive
\* classes, when the error of a runtime call is > error_size_max, h_dt is
\* divided by 1.1 and the committed displacement buffer is unchanged.
RejectedStepCommitsNothing ==
    (AdaptiveRuntime /\ FloatGt(last.error, error_size_max))
        => /\ h_dt * 11 = last.dt_stage * 10
           /\ d_un = last.un_before

\* a rejected call whose candidate solution differs from the committed one
RejectedStep ==
    /\ AdaptiveRuntime
    /\ FloatGt(last.error, error_size_max)
    /\ h_dt < last.dt_stage
    /\ d_un_temp # d_un
    /\ d_un = last.un_before

\* C4 as stated: in every adaptive class a rejected runtime call leaves every
\* bond flag unchanged, and no bond is broken against a stage displacement
\* (the adjacency after the stage force evaluations is the one before the
\* call).
FailureChecksOnlyOnAccepted ==
    AdaptiveRuntime
        => /\ last.adapt = 1 => d_horizons = last.hz_before
           /\ last.hz_stage = last.hz_before

\* C5 as stated: whenever a runtime call of an adaptive class commits, the
\* error read back in that call is <= error_size_max, for finite, infinite
\* and not-a-number values.
ErrorBoundAtAcceptance ==
    (AdaptiveRuntime /\ last.committed) => FloatLe(last.error, error_size_max)

(* ---------------------------------------------------------------------- *)
(* Repeated runtime calls under an error law                              *)
(* ---------------------------------------------------------------------- *)

\* an error estimate that is a non-decreasing function of the time step:
\* above error_size_max until h_dt has been divided by 1.1 MaxAdapt times
ErrorOf(dt) == IF dt > Pow(100, MaxAdapt) THEN error_size_max + 1 ELSE error_size_max

LiveInit == Init /\ kind \in AdaptiveKinds

LiveRuntime ==
    \/ HeunEuler_runtime({ErrorOf(h_dt)})
    \/ HeunEulerOptimised_runtime({ErrorOf(h_dt)})
    \/ DormandPrince_runtime({ErrorOf(h_dt)})
    \/ DormandPrinceOptimised_runtime({ErrorOf(h_dt)})

LiveNext ==
    \/ LiveRuntime
    \/ write
    \/ \E load_scale \in 0..MaxLoad : incrementLoad(load_scale)

\* the caller keeps calling runtime
LiveSpec == LiveInit /\ [][LiveNext]_vars /\ WF_vars(LiveRuntime)

\* C6: eventual acceptance. Starting from a time step whose first runtime
\* call is rejected, with an error that is non-decreasing in h_dt and
\* <= error_size_max for small h_dt, every rejected call strictly decreases
\* h_dt and eventually a runtime call commits the step.
EventualAcceptance ==
    /\ [][(last'.op = "runtime" /\ last'.adapt = 1) => h_dt' < h_dt]_vars
    /\ <>(AdaptiveRuntime /\ last.committed)

\* a call committed at a time step reached by MaxAdapt rejections
AcceptedAfterRejections ==
    /\ AdaptiveRuntime
    /\ last.committed
    /\ last.error = ErrorOf(last.dt_stage)
    /\ last.dt_stage = Pow(100, MaxAdapt)
    /\ last.dt_stage < DtUnit

GrowthOnlyForNextStep ==
    AdaptiveRuntime
        => /\ FloatLt(last.error, error_size_min)
              => /\ last.committed
                 /\ h_dt * 10 = last.dt_stage * 11
                 /\ last.dt_commit = last.dt_stage
                 /\ \A i \in Nodes :
                       model.bc_types[i] # 2
                          => d_un[i] = last.un_before[i]
                                         + MulDt(last.dt_stage, model.bc_values[i])
           /\ (FloatLe(error_size_min, last.error) /\ FloatLe(last.error, error_size_max))
              => last.committed /\ h_dt = last.dt_stage

\* C9: bounded time-step adjustment. A runtime call of an adaptive class
\* changes h_dt by exactly one of the factors 1/1.1, 1, 1.1; h_dt is model.dt
\* times an integer power of 1.1 and strictly positive; the time step of a
\* fixed-step class never changes.
BoundedTimeStepAdjustment ==
    /\ h_dt > 0
    /\ IF h_dt >= DtUnit
       THEN \E k \in 0..MaxAdapt : h_dt * Pow(10, k) = DtUnit * Pow(11, k)
       ELSE \E k \in 0..MaxAdapt : h_dt * Pow(11, k) = DtUnit * Pow(10, k)
    /\ AdaptiveRuntime
          => \/ h_dt * 11 = last.dt_stage * 10
             \/ h_dt = last.dt_stage
             \/ h_dt * 10 = last.dt_stage * 11
    /\ kind \in FixedKinds => h_dt = DtUnit

\* the time step has grown in one call and shrunk in the next
GrownThenShrunk ==
    /\ AdaptiveRuntime
    /\ last.dt_stage * 10 = DtUnit * 11
    /\ h_dt = DtUnit
    /\ last.adapt = 1

\* a damage value in [0, 1]; NaN compares false
InUnitRange(d) == d.den # 0 /\ 0 <= d.num /\ d.num <= d.den

WriteIsSideEffectFree ==
    [][last'.op = "write"
          => UNCHANGED <<d_un, d_un_temp, d_udn, d_uddn, d_horizons, h_dt,
                         h_force_load_scale, d_pn, calls>>]_vars

\* write was called between two steps, with a broken bond and a non-zero
\* rate buffer
WriteBetweenSteps ==
    /\ last.op = "write"
    /\ calls >= 1
    /\ calls < MaxCalls
    /\ d_udn # ZeroField
    /\ Broken(d_horizons) # {}
    /\ d_un = last.un_before
    /\ d_horizons = last.hz_before

\* v is the arithmetic mean of Field over the tip nodes
IsTipMean(v, Field) ==
    /\ ~v.none
    /\ v.num * Cardinality(TipNodes) = v.den * TipSum(Field)

\* C12 as stated: with at least one tip node, write returns the arithmetic
\* mean of the displacement over the tip nodes and the arithmetic mean of
\* the force (or acceleration) over the tip nodes.
TipDiagnosticsAreMeans ==
    (last.op = "write" /\ TipNodes # {} /\ Len(last.ret) = 3)
        => /\ IsTipMean(last.ret[2], d_un)
           /\ IsTipMean(last.ret[3],
                        IF kind \in {"EulerCromer", "EulerCromerOptimised"}
                        THEN d_uddn ELSE d_udn)

\* C13 as stated: without tip nodes, write returns the no-data value for
\* both diagnostics.
ZeroTipNodesGiveNone ==
    (last.op = "write" /\ TipNodes = {} /\ Len(last.ret) = 3)
        => last.ret[2].none /\ last.ret[3].none

\* C14 as stated: in every class write returns the damage vector of length
\* nnodes together with a tip displacement and a tip force.
UniformReportOutput ==
    last.op = "write"
        => /\ Len(last.ret) = 3
           /\ DOMAIN last.ret[1] = Nodes

\* C15: incrementLoad is a pure scalar update. It sets h_force_load_scale to
\* its argument when the model has force-BC nodes and changes nothing
\* otherwise; buffers, bond flags, damage and time step are left alone; the
\* scalar is 0 from construction and no other operation changes it.
IncrementLoadIsScalarUpdate ==
    /\ [](last.op = "init" => h_force_load_scale = 0)
    /\ [](model.num_force_bc_nodes = 0 => h_force_load_scale = 0)
    /\ [][/\ last'.op = "incrementLoad"
             => /\ h_force_load_scale' =
                      IF model.num_force_bc_nodes # 0 THEN last'.arg
                      ELSE h_force_load_scale
                /\ UNCHANGED <<d_un, d_un_temp, d_udn, d_uddn, d_horizons, h_dt,
                               h_damage, d_pn, calls>>
          /\ last'.op \in {"runtime", "write", "reset"}
             => h_force_load_scale' = h_force_load_scale]_vars

\* an effective incrementLoad after a step, and one without force-BC nodes
LoadScaleSet ==
    /\ last.op = "incrementLoad"
    /\ last.arg = MaxLoad
    /\ model.num_force_bc_nodes # 0
    /\ h_force_load_scale = MaxLoad
    /\ calls >= 1
    /\ d_un # ZeroField

(* ---------------------------------------------------------------------- *)
(* Properties of the Euler class and the regression loop                  *)
(* ---------------------------------------------------------------------- *)

\* C16: Euler update formula. A call integrator(u, f) of an Euler object
\* returns, for every node and component, u + dt * f * dampening computed
\* from the one force array it is given; an object constructed without a
\* dampening argument has dampening 1.0; the call leaves u, f, dt and
\* dampening as they were.
EulerUpdateFormula ==
    /\ [](result # <<>> =>
            \A i \in Nodes, c \in Components :
                DampUnit * result[i][c]
                    = DampUnit * u[i][c]
                        + integrator.dt * f[i][c] * integrator.dampening)
    /\ [](\A dt \in 1..2 : Euler(dt, <<>>).dampening = DampUnit)
    /\ [][result' # result => UNCHANGED <<u, f, integrator>>]_vars

\* a call with a dampening factor other than 1.0 that moved some node
EulerCallDamped ==
    /\ result # <<>>
    /\ integrator.dampening # DampUnit
    /\ \E i \in Nodes, c \in Components : result[i][c] # u[i][c] /\ u[i][c] # 0

\* the model has no applied load and no displacement boundary condition
NoLoadNoBC ==
    /\ model.num_force_bc_nodes = 0
    /\ \A i \in Nodes : model.bc_types[i] = 2 /\ model.force_bc_types[i] = 2

\* C17 as stated: zero-load equilibrium. On a model with no applied load and
\* no displacement boundary condition, the first runtime call of EulerOpenCL
\* made at zero displacement leaves the displacement zero at every node.
ZeroLoadEquilibrium ==
    ( /\ kind = "EulerOpenCL"
      /\ NoLoadNoBC
      /\ last.op = "runtime"
      /\ calls = 1
      /\ last.un_before = ZeroField )
        => d_un = ZeroField

SameResult ==
    /\ pair.a.d_un = pair.b.d_un
    /\ Broken(pair.a.d_horizons) = Broken(pair.b.d_horizons)

\* C19 as stated: optimised and non-optimised variants are equivalent in
\* result. Constructed on the same model with zero-filled buffers and given
\* the same sequence of runtime and incrementLoad calls, EulerOpenCL and
\* EulerOpenCLOptimised, and RK4 and RK4Optimised, have the same displacement
\* field and the same set of broken bonds after every step.
OptimisedEquivalentInResult ==
    ( /\ pair.kinds \in {<<"EulerOpenCL", "EulerOpenCLOptimised">>,
                          <<"RK4", "RK4Optimised">>}
      /\ pair.zeroed )
        => SameResult

\* C20 as stated: lumped-reduction Euler is identical to two-stage Euler.
\* Constructed on the same model with zero-filled buffers, after the same
\* number of runtime calls EulerOpenCLOptimised and EulerOpenCLOptimisedLumped
\* have the same displacement field, nodal force and set of broken bonds.
LumpedIdenticalToTwoStage ==
    ( /\ pair.kinds = <<"EulerOpenCLOptimised", "EulerOpenCLOptimisedLumped">>
      /\ pair.zeroed )
        => /\ SameResult
           /\ pair.a.d_udn = pair.b.d_udn

(* ---------------------------------------------------------------------- *)
(* Properties of the single classes                                       *)
(* ---------------------------------------------------------------------- *)

\* C21 as stated: reset contract of the stochastic class. reset(model, steps)
\* leaves displacement, nodal force and damage all zero, installs steps noise
\* increments and leaves the load scale, the time step and the model as they
\* were; a runtime(model, step) call runs only after a reset, and only for a
\* step index covered by the last reset.
StochasticResetContract ==
    /\ [](last.op = "reset" =>
            /\ d_un = ZeroField
            /\ d_udn = ZeroField
            /\ \A i \in Nodes : h_damage[i].num = 0 /\ h_damage[i].den = 1
            /\ Len(d_pn) = last.arg)
    /\ []((kind = "EulerStochastic" /\ last.op = "runtime") =>
            /\ d_pn # <<>>
            /\ last.arg \in 1..Len(d_pn))
    /\ [][last'.op = "reset" => UNCHANGED <<h_force_load_scale, h_dt, model>>]_vars

\* C22 as stated: configuration mismatches are rejected at setup. For a
\* model one of whose per-node arrays has a length other than nnodes, the
\* constructor fails: no integrator object and no device buffer come to
\* exist and no step runs.
MismatchRejectedAtSetup ==
    ~WellFormed(model) =>
        /\ kind = "none"
        /\ d_horizons = <<>>
        /\ last.op # "runtime"

\* C23 as stated: the failure rule gives zero force in the breaking step.
\* After a runtime call of a class whose rate buffer holds the nodal force
\* of the committed displacement, every bond stretched past the critical
\* stretch at that displacement is broken, and the nodal force is the sum
\* over the bonds still active after the call: a bond broken in this call
\* contributes nothing to it.
ZeroForceInBreakingStep ==
    ( /\ last.op = "runtime"
      /\ kind \in {"EulerOpenCL", "EulerOpenCLOptimised", "EulerStochastic"} )
        => /\ d_horizons = CheckBonds(last.hz_before, d_un)
           /\ d_udn = CalcBondForce(d_horizons, d_un, h_force_load_scale)

\* nodal force a class evaluates in a call that starts from the adjacency
\* Horizons and the displacement Un
ForceOfCall(Horizons, Un) ==
    IF kind = "EulerOpenCL"
    THEN CalcBondForce(Horizons, Un, h_force_load_scale)
    ELSE ReduceForce(BondForces(Horizons, Un), h_force_load_scale)

\* C24 as stated: stage order within a step. In a runtime call of an Euler
\* class the force is evaluated and reduced first, the state update then
\* consumes that force, and the failure check comes last: the committed
\* displacement is the update of the start displacement by the force this
\* call evaluated at it, and the bonds broken by the call are those stretched
\* past the critical stretch at the committed displacement.
StageOrderWithinStep ==
    ( /\ last.op = "runtime"
      /\ kind \in {"EulerOpenCL", "EulerOpenCLOptimised",
                    "EulerOpenCLOptimisedLumped"} )
        => /\ d_un = UpdateDisplacement(
                         ForceOfCall(last.hz_before, last.un_before),
                         last.un_before, DtUnit)
           /\ d_horizons = CheckBonds(last.hz_before, d_un)

\* the force the i-th evaluation of the last RK4 call produced: RK4 keeps the
\* adjacency of the call's start, RK4Optimised tests the bonds in every stage
StageHorizons(i) ==
    IF kind = "RK4" THEN last.hz_before
    ELSE IF i = 1 THEN last.hz_before
    ELSE IF i = 2 THEN CheckBonds(last.hz_before, last.evals[1])
    ELSE IF i = 3 THEN CheckBonds(CheckBonds(last.hz_before, last.evals[1]), last.evals[2])
    ELSE CheckBonds(CheckBonds(CheckBonds(last.hz_before, last.evals[1]), last.evals[2]), last.evals[3])

StageForce(i) ==
    IF kind = "RK4"
    THEN CalcBondForce(StageHorizons(i), last.evals[i], h_force_load_scale)
    ELSE ReduceForce(BondForces(StageHorizons(i), last.evals[i]), h_force_load_scale)

\* C25 as stated: a Runge-Kutta call evaluates the force exactly four times,
\* at u, at u1 built from (k1, u), at u2 built from (k2, u) and at u3 built
\* from (k3, u), every intermediate displacement being built from the
\* start-of-step u, and the committed displacement is what the final weighted
\* update of the four slopes writes on that same u
RK4StepShape ==
    (last.op = "runtime" /\ kind \in {"RK4", "RK4Optimised"})
        => /\ Len(last.evals) = 4
           /\ last.evals[1] = last.un_before
           /\ last.evals[2] = RK4PartialUpdateDisplacement(StageForce(1), last.un_before)
           /\ last.evals[3] = RK4PartialUpdateDisplacement(StageForce(2), last.un_before)
           /\ last.evals[4] = RK4PartialUpdateDisplacement2(StageForce(3), last.un_before)
           /\ d_un = RK4UpdateDisplacement(StageForce(1), StageForce(2),
                                           StageForce(3), StageForce(4),
                                           last.un_before)

\* a Runge-Kutta call whose four evaluation points are pairwise different and
\* whose start-of-step displacement was already moved by an earlier call
RK4FourDistinctStages ==
    /\ last.op = "runtime"
    /\ kind \in {"RK4", "RK4Optimised"}
    /\ calls = 2
    /\ last.un_before # ZeroField
    /\ Cardinality({last.evals[i] : i \in 1..4}) = 4
    /\ d_un # last.un_before

\* C26 as stated: an Euler-Cromer call updates the velocity first and then,
\* within the same call, the displacement from the new velocity, so that
\* after the call u' = u + dt v' with v' the velocity the call has written
EulerCromerStepShape ==
    (last.op = "runtime" /\ kind \in {"EulerCromer", "EulerCromerOptimised"})
        => d_un = UpdateDisplacement(d_udn, last.un_before, DtUnit)

DeactivationOrderIndependent ==
    /\ []((last.op \in BondKernels /\ pending = {})
            => d_horizons = CheckBonds(last.hz_before, d_un))
    /\ [][(last'.op \in BondKernels /\ last.op = last'.op /\ pending' # pending)
            => /\ \A i \in Nodes, s \in Slots :
                     <<i, s>> # last'.arg => d_horizons'[i][s] = d_horizons[i][s]
               /\ d_horizons[last'.arg[1]][last'.arg[2]] = -1
                     => d_horizons' = d_horizons]_vars
    /\ [][last'.op \notin BondKernels => d_horizons' = d_horizons]_vars

\* a finished failure test that broke one bond of a node and kept another
SomeBondsBroken ==
    /\ last.op \in BondKernels
    /\ pending = {}
    /\ \E i \in Nodes : \E s, r \in Slots :
          /\ last.hz_before[i][s] # -1 /\ d_horizons[i][s] = -1
          /\ d_horizons[i][r] # -1

\* C29 as stated: the first runtime call after construction reads defined
\* buffers only: the displacement it starts from has been written before the
\* call, and where the call begins with the displacement update, the rate
\* it integrates has been written before the call
NoReadBeforeWrite ==
    (last.op = "runtime" /\ (calls = 0 \/ (calls = 1 /\ last.committed)))
        => /\ last.un_before = ZeroField
           /\ kind \in {"EulerOpenCL", "EulerOpenCLOptimised",
                         "EulerCromer", "EulerCromerOptimised"}
                 => d_un = UpdateDisplacement(ZeroField, ZeroField, DtUnit)

\* the subdomains listed as neighbours of the 0-based subdomain i
ListedFor(i) ==
    {domain.nearestNeighbour[i + 1][k] : k \in DOMAIN domain.nearestNeighbour[i + 1]}

\* C30 as stated: for partitionType = 1 and every M >= 1 the neighbour list
\* has exactly M entries, lists only subdomains of 0..M-1, lists no subdomain
\* for itself and is symmetric; and the part index of every node lies in
\* 0..M-1 and does not decrease with x
NeighbourTableWellFormed ==
    (domain.called /\ domain.partitionType = 1)
        => /\ Len(domain.nearestNeighbour) = domain.M
           /\ \A i \in 0..(Len(domain.nearestNeighbour) - 1) :
                 /\ ListedFor(i) \subseteq 0..(domain.M - 1)
                 /\ i \notin ListedFor(i)
                 /\ \A j \in ListedFor(i) \cap 0..(Len(domain.nearestNeighbour) - 1) :
                       i \in ListedFor(j)
           /\ \A i \in Nodes : domain.part[i] \in 0..(domain.M - 1)
           /\ \A i, j \in Nodes :
                 domain.coords[i] <= domain.coords[j] => domain.part[i] <= domain.part[j]
====
